---------------------------- MODULE Spec2Model ----------------------------
(***************************************************************************)
(* Model of extractor.py: the command line program that decodes a 14       *)
(* character Egyptian national id into birth century, date of birth,       *)
(* birth governorate, sequence in computer and gender.                     *)
(*                                                                         *)
(* A string is a sequence of one-character strings.  The alphabet holds    *)
(* the ten ASCII digits, one letter ("X", for which str.isdigit() is       *)
(* False) and the superscript two ("SUP2", U+00B2, for which               *)
(* str.isdigit() is True although int() and the \d of strptime refuse it). *)
(*                                                                         *)
(* The command line argument starts as one of the ids of BaseIds and is    *)
(* altered by at most MaxEdits single-character edits before main runs.    *)
(***************************************************************************)
EXTENDS Integers, Sequences, FiniteSets, TLC

\* ------------------------------------------------------------------ bounds
\* number of single-character edits applied to an id of BaseIds
MaxEdits == 1

\* ---------------------------------------------------------------- alphabet
AsciiDigits == {"0", "1", "2", "3", "4", "5", "6", "7", "8", "9"}

Chars == AsciiDigits \cup {"X", "SUP2"}

DigitChar == <<"0", "1", "2", "3", "4", "5", "6", "7", "8", "9">>

DigitVals == [ch \in AsciiDigits |-> CHOOSE v \in 0..9 : DigitChar[v + 1] = ch]

DigitVal(ch) == DigitVals[ch]

\* the ids the argument is derived from: the class docstring example
\* (2-950102-32-0195-2) with a governorate code of every leading digit, and
\* the id of a girl born in Cairo on the leap day 2000-02-29
BaseCodes == { <<DigitChar[t + 1], "2">> : t \in 0..9 }

LeapDayId == <<"3","0","0","0","2","2","9","0","1","1","2","3","4","1">>

BaseIds ==
  { <<"2","9","5","0","1","0","2">> \o g \o <<"0","1","9","5","2">> : g \in BaseCodes }
    \cup {LeapDayId}

\* the values datetime.now() takes, as <<year, month, day>>
Nows == { <<2023, 1, 1>>, <<2026, 11, 1>> }

\* ------------------------------------------------------- Python primitives
\* len(s) != 14 or s.isdigit() is False
IsDigitChars == AsciiDigits \cup {"SUP2"}

isdigit(s) == Len(s) > 0 /\ \A i \in 1..Len(s) : s[i] \in IsDigitChars

\* int(s) raises ValueError unless every character is a decimal digit
int_raises(s) == Len(s) = 0 \/ \E i \in 1..Len(s) : s[i] \notin AsciiDigits

RECURSIVE int(_)
int(s) == IF Len(s) = 0 THEN 0
          ELSE 10 * int(SubSeq(s, 1, Len(s) - 1)) + DigitVal(s[Len(s)])

\* '{0}'.format(n) for a non-negative integer
RECURSIVE str(_)
str(n) == IF n < 10 THEN <<DigitChar[n + 1]>>
          ELSE str(n \div 10) \o <<DigitChar[(n % 10) + 1]>>

IsLeap(y) == (y % 4 = 0 /\ y % 100 # 0) \/ y % 400 = 0

DaysInMonth(y, m) ==
  IF m = 2 THEN (IF IsLeap(y) THEN 29 ELSE 28)
  ELSE IF m \in {4, 6, 9, 11} THEN 30 ELSE 31

\* datetime.strptime(s, '%Y-%m-%d') raises ValueError: %Y is four \d, %m is
\* 1[0-2]|0[1-9]|[1-9], %d is 3[01]|[12]\d|0[1-9]|[1-9], the whole string
\* must be consumed and the day must exist in the month
strptime_raises(s) ==
  LET Y == SubSeq(s, 1, 4)
      m == SubSeq(s, 6, 7)
      d == SubSeq(s, 9, 10)
  IN  \/ Len(s) # 10
      \/ s[5] # "-" \/ s[8] # "-"
      \/ int_raises(Y) \/ int_raises(m) \/ int_raises(d)
      \/ int(m) \notin 1..12
      \/ int(d) \notin 1..31
      \/ int(Y) < 1
      \/ int(d) > DaysInMonth(int(Y), int(m))

strptime(s) == <<int(SubSeq(s, 1, 4)), int(SubSeq(s, 6, 7)), int(SubSeq(s, 9, 10))>>

\* datetime comparison; a strptime date is midnight, so it is later than a
\* moment of day n exactly when its date is later than n
DateLT(a, b) ==
  \/ a[1] < b[1]
  \/ a[1] = b[1] /\ a[2] < b[2]
  \/ a[1] = b[1] /\ a[2] = b[2] /\ a[3] < b[3]

DateGT(a, b) == DateLT(b, a)

\* ------------------------------------------------------ EgyptionNationalId
fake_national_id_message == "This National ID Not Valid"

governorates ==
  [ c \in { <<"0","1">>, <<"0","2">>, <<"0","3">>, <<"0","4">>,
            <<"1","1">>, <<"1","2">>, <<"1","3">>, <<"1","4">>, <<"1","5">>,
            <<"1","6">>, <<"1","7">>, <<"1","8">>, <<"1","9">>,
            <<"2","1">>, <<"2","2">>, <<"2","3">>, <<"2","4">>, <<"2","5">>,
            <<"2","6">>, <<"2","7">>, <<"2","8">>, <<"2","9">>,
            <<"3","1">>, <<"3","2">>, <<"3","3">>, <<"3","4">>, <<"3","5">>,
            <<"8","8">> } |->
    CASE c = <<"0","1">> -> "Cairo"
      [] c = <<"0","2">> -> "Alexandria"
      [] c = <<"0","3">> -> "Port Said"
      [] c = <<"0","4">> -> "Suez"
      [] c = <<"1","1">> -> "Damietta"
      [] c = <<"1","2">> -> "Dakahlia"
      [] c = <<"1","3">> -> "Ash Sharqia"
      [] c = <<"1","4">> -> "Kaliobeya"
      [] c = <<"1","5">> -> "Kafr El - Sheikh"
      [] c = <<"1","6">> -> "Gharbia"
      [] c = <<"1","7">> -> "Monoufia"
      [] c = <<"1","8">> -> "El Beheira"
      [] c = <<"1","9">> -> "Ismailia"
      [] c = <<"2","1">> -> "Giza"
      [] c = <<"2","2">> -> "Beni Suef"
      [] c = <<"2","3">> -> "Fayoum"
      [] c = <<"2","4">> -> "El Menia"
      [] c = <<"2","5">> -> "Assiut"
      [] c = <<"2","6">> -> "Sohag"
      [] c = <<"2","7">> -> "Qena"
      [] c = <<"2","8">> -> "Aswan"
      [] c = <<"2","9">> -> "Luxor"
      [] c = <<"3","1">> -> "Red Sea"
      [] c = <<"3","2">> -> "New Valley"
      [] c = <<"3","3">> -> "Matrouh"
      [] c = <<"3","4">> -> "North Sinai"
      [] c = <<"3","5">> -> "South Sinai"
      [] c = <<"8","8">> -> "Foreign" ]

\* what a call leaves behind: the exception it raised ("None" when it
\* returned), the exception's message and errors payload, and the value it
\* returned (<<>> when it raised)
Return(v) == [raised |-> "None", message |-> "", errors |-> "", value |-> v]

Raise(exc, msg, errs) == [raised |-> exc, message |-> msg, errors |-> errs, value |-> <<>>]

ValidationError(message, errors) == Raise("ValidationError", message, errors)

ValueError == Raise("ValueError", "", "")

__get_century_from_year(year) == (year \div 100) + 1

__get_birth_century(birth_century_code, now) ==
  LET current_century == __get_century_from_year(now[1])
      birth_century == birth_century_code + 18
  IN  IF birth_century < 19 /\ birth_century > current_century
      THEN ValidationError("birth century not valid", fake_national_id_message)
      ELSE Return(birth_century)

\* a range test on the number in place of the table lookup
__get_birth_governorate_by_range(birth_governorate_coda) ==
  IF /\ ~int_raises(birth_governorate_coda)
     /\ int(birth_governorate_coda) \in (1..35) \cup {88}
  THEN Return(IF birth_governorate_coda \in DOMAIN governorates
              THEN governorates[birth_governorate_coda] ELSE "Foreign")
  ELSE ValidationError("birth governorate code not valid", "KeyError")

__get_birth_governorate(birth_governorate_coda) ==
  IF birth_governorate_coda \in DOMAIN governorates
  THEN Return(governorates[birth_governorate_coda])
  ELSE ValidationError("birth governorate code not valid", "KeyError")

\* the parity test inverted
__get_gender_inverted(gender_code) ==
  IF gender_code % 2 = 0 THEN Return("Male") ELSE Return("Female")

__get_gender(gender_code) ==
  IF gender_code < 0 /\ gender_code > 9
  THEN ValidationError("gender code not valid", fake_national_id_message)
  ELSE IF gender_code % 2 = 0 THEN Return("Female") ELSE Return("Male")

__convert_birthdate(birthdate, now) ==
  IF int_raises(<<birthdate[1]>>) THEN ValueError
  ELSE
    LET century == __get_birth_century(int(<<birthdate[1]>>), now)
    IN  IF century.raised # "None" THEN century
        ELSE
          LET birth_century == century.value
              birth_year == SubSeq(birthdate, 2, 3)
              birth_month == SubSeq(birthdate, 4, 5)
              birth_day == SubSeq(birthdate, 6, Len(birthdate))
          IN  IF int_raises(birth_year) THEN ValueError
              ELSE
                LET birth_full_year == (birth_century * 100) - 100 + int(birth_year)
                    birthdate_str == str(birth_full_year) \o <<"-">> \o birth_month
                                       \o <<"-">> \o birth_day
                IN  IF strptime_raises(birthdate_str) THEN ValueError
                    ELSE
                      LET birthdate_date == strptime(birthdate_str)
                      IN  IF DateGT(birthdate_date, now)
                               /\ DateLT(birthdate_date, <<1900, 1, 1>>)
                          THEN ValidationError("birthdate not valid", "None")
                          ELSE Return(birthdate_str)

\* national_id[10:14], the slice taken one position late
sequence_of_shifted(national_id) == SubSeq(national_id, 11, 14)

\* national_id[9:13]
sequence_of(national_id) == SubSeq(national_id, 10, 13)

\* national_id[13], the last character read as the gender code
gender_code_of_last(national_id) == <<national_id[14]>>

\* national_id[12], the argument of int() in the call of __get_gender
gender_code_of(national_id) == <<national_id[13]>>

parse_str(national_id, now) ==
  IF Len(national_id) # 14 \/ ~isdigit(national_id)
  THEN ValidationError("National id format not valid", fake_national_id_message)
  ELSE IF int_raises(<<national_id[1]>>) THEN ValueError
  ELSE
    LET birth_century == __get_birth_century(int(<<national_id[1]>>), now)
        date_of_birth == __convert_birthdate(SubSeq(national_id, 1, 7), now)
        birth_governorate == __get_birth_governorate(SubSeq(national_id, 8, 9))
        sequence_in_computer == sequence_of(national_id)
    IN  IF birth_century.raised # "None" THEN birth_century
        ELSE IF date_of_birth.raised # "None" THEN date_of_birth
        ELSE IF birth_governorate.raised # "None" THEN birth_governorate
        ELSE IF int_raises(gender_code_of(national_id)) THEN ValueError
        ELSE
          LET gender == __get_gender(int(gender_code_of(national_id)))
          IN  IF gender.raised # "None" THEN gender
              ELSE Return(<<birth_century.value, date_of_birth.value,
                            birth_governorate.value, sequence_in_computer,
                            gender.value>>)

\* the namedtuple _ENID built from the five fields
_ENID(fields) ==
  [birth_century |-> fields[1], date_of_birth |-> fields[2],
   birth_governorate |-> fields[3], sequence_in_computer |-> fields[4],
   gender |-> fields[5]]

from_str(national_id, now) ==
  LET fields == parse_str(national_id, now)
  IN  IF fields.raised # "None" THEN fields ELSE Return(_ENID(fields.value))

\* ----------------------------------------------------------- state machine
VARIABLES
  national_id,   \* args.national_id, the command line argument
  edits,         \* number of edits the argument has received
  now,           \* the date datetime.now() returns during the run
  pc,            \* "argv" before main runs, "exit" after
  info,          \* what from_str returned or raised
  stdout,        \* number of lines printed
  exit_code      \* the status of the process

vars == <<national_id, edits, now, pc, info, stdout, exit_code>>

NotCalled == Raise("NotCalled", "", "")

Init ==
  /\ national_id \in BaseIds
  /\ edits = 0
  /\ now \in Nows
  /\ pc = "argv"
  /\ info = NotCalled
  /\ stdout = 0
  /\ exit_code = 0

\* the caller writes another character at one position of the argument
ReplaceChar(i, ch) ==
  /\ pc = "argv"
  /\ edits < MaxEdits
  /\ national_id[i] # ch
  /\ national_id' = [national_id EXCEPT ![i] = ch]
  /\ edits' = edits + 1
  /\ UNCHANGED <<now, pc, info, stdout, exit_code>>

\* the caller passes one character more
AppendChar(ch) ==
  /\ pc = "argv"
  /\ edits < MaxEdits
  /\ national_id' = Append(national_id, ch)
  /\ edits' = edits + 1
  /\ UNCHANGED <<now, pc, info, stdout, exit_code>>

\* the caller passes one character less
DropChar ==
  /\ pc = "argv"
  /\ edits < MaxEdits
  /\ Len(national_id) > 0
  /\ national_id' = SubSeq(national_id, 1, Len(national_id) - 1)
  /\ edits' = edits + 1
  /\ UNCHANGED <<now, pc, info, stdout, exit_code>>

\* the script body: from_str on the argument, then print(info); an
\* exception is not caught and ends the process with status 1, parse_str
\* having printed one line when it rejected the format
main ==
  /\ pc = "argv"
  /\ info' = from_str(national_id, now)
  /\ stdout' = IF info'.raised = "None" \/ info'.message = "National id format not valid"
               THEN 1 ELSE 0
  /\ exit_code' = IF info'.raised = "None" THEN 0 ELSE 1
  /\ pc' = "exit"
  /\ UNCHANGED <<national_id, edits, now>>

Next ==
  \/ \E i \in 1..Len(national_id), ch \in Chars : ReplaceChar(i, ch)
  \/ \E ch \in Chars : AppendChar(ch)
  \/ DropChar
  \/ main

Spec == Init /\ [][Next]_vars

\* ------------------------------------------------- vocabulary of the claims
Done == pc = "exit"

Returned == info.raised = "None"

Failed(message) == info.raised = "ValidationError" /\ info.message = message

MalformedInput == Failed("National id format not valid")

InvalidCentury == Failed("birth century not valid")

InvalidDate == Failed("birthdate not valid")

UnknownGovernorate == Failed("birth governorate code not valid")

InvalidGender == Failed("gender code not valid")

\* exactly 14 characters, all of them decimal digits
WellFormed ==
  Len(national_id) = 14 /\ \A i \in 1..14 : national_id[i] \in AsciiDigits

Digit(i) == DigitVal(national_id[i])

Century == Digit(1) + 18

CurrentCentury == (now[1] \div 100) + 1

CenturyInRange == 19 <= Century /\ Century <= CurrentCentury

FullYear == (Century - 1) * 100 + 10 * Digit(2) + Digit(3)

Month == 10 * Digit(4) + Digit(5)

Day == 10 * Digit(6) + Digit(7)

RealDate == Month \in 1..12 /\ Day >= 1 /\ Day <= DaysInMonth(FullYear, Month)

DateInRange ==
  /\ ~DateLT(<<FullYear, Month, Day>>, <<1900, 1, 1>>)
  /\ ~DateLT(now, <<FullYear, Month, Day>>)

Code == SubSeq(national_id, 8, 9)

CodeNumber == 10 * Digit(8) + Digit(9)

\* the codes 01-04, 11-19, 21-29, 31-35 and 88
ListedCode == CodeNumber \in (1..4) \cup (11..19) \cup (21..29) \cup (31..35) \cup {88}

\* ------------------------------------------------------------------ claims
\* C1: an argument whose length is not 14, or that holds a character that
\* is not a decimal digit, fails with MalformedInput and yields no record.
C1_MalformedInputRejected ==
  (Done /\ ~WellFormed) => (MalformedInput /\ info.value = <<>>)

\* C2: a well-formed argument whose century (first digit + 18) lies outside
\* [19, now.year \div 100 + 1] fails with InvalidCentury, so every record
\* has birth_century within that range.
C2_CenturyOutOfRangeRejected ==
  (Done /\ WellFormed) =>
    /\ ~CenturyInRange => InvalidCentury
    /\ Returned => (19 <= info.value.birth_century
                      /\ info.value.birth_century <= CurrentCentury)

\* C3: a well-formed argument with a century in range whose year, month and
\* day form a calendar date earlier than 1900-01-01 or later than now fails
\* with InvalidDate, so every record has date_of_birth within
\* [1900-01-01, now].
C3_DateOutOfRangeRejected ==
  /\ (Done /\ WellFormed /\ CenturyInRange /\ RealDate /\ ~DateInRange) => InvalidDate
  /\ (Done /\ WellFormed /\ Returned) => DateInRange

\* C4: a well-formed argument with a century in range whose month and day
\* digits form no calendar date in the composed year fails with the
\* validation error InvalidDate and yields no record.
C4_ImpossibleDateRejected ==
  (Done /\ WellFormed /\ CenturyInRange /\ ~RealDate) =>
    (InvalidDate /\ info.value = <<>>)

\* the argument got through the format, century and birthdate steps
PassedDate ==
  /\ Len(national_id) = 14 /\ isdigit(national_id)
  /\ ~int_raises(<<national_id[1]>>)
  /\ __convert_birthdate(SubSeq(national_id, 1, 7), now).raised = "None"

\* C5: once the format, century and date steps are passed, the code at
\* positions 7-8 is accepted exactly when it is one of 01-04, 11-19, 21-29,
\* 31-35, 88, the record then carrying the name the table gives it; any
\* other code fails with UnknownGovernorate.
C5_GovernorateCodes ==
  (Done /\ PassedDate) =>
    IF ~int_raises(Code) /\ ListedCode
    THEN /\ ~UnknownGovernorate
         /\ Code \in DOMAIN governorates
         /\ Returned => info.value.birth_governorate = governorates[Code]
    ELSE UnknownGovernorate /\ info.value = <<>>

C5_Witness ==
  /\ Done /\ PassedDate /\ Returned
  /\ Code = <<"8", "8">> /\ info.value.birth_governorate = "Foreign"

\* C6: once every earlier step is passed, gender digit 0 fails with
\* InvalidGender, digits 2, 4, 6, 8 give Female and 1, 3, 5, 7, 9 give Male.
C6_GenderDigits ==
  (Done /\ WellFormed /\ PassedDate /\ ListedCode) =>
    /\ Digit(13) = 0 => InvalidGender
    /\ Digit(13) \in {2, 4, 6, 8} => (Returned /\ info.value.gender = "Female")
    /\ Digit(13) \in {1, 3, 5, 7, 9} => (Returned /\ info.value.gender = "Male")

\* the class docstring example, run on 2023-01-01
Example == <<"2","9","5","0","1","0","2","3","2","0","1","9","5","2">>

ExampleRun == Done /\ national_id = Example /\ now = <<2023, 1, 1>>

ExampleRecord(gender) ==
  [birth_century |-> 20,
   date_of_birth |-> <<"1","9","9","5","-","0","1","-","0","2">>,
   birth_governorate |-> "New Valley",
   sequence_in_computer |-> <<"0","1","9","5">>,
   gender |-> gender]

\* C7 as stated: 29501023201952 on 2023-01-01 gives century 20, date
\* 1995-01-02, governorate New Valley, sequence 0195 and gender Female.
C7_ExampleFemale ==
  ExampleRun => (Returned /\ info.value = ExampleRecord("Female"))

\* C7 amended: 29501023201952 on 2023-01-01 gives century 20, date
\* 1995-01-02, governorate New Valley, sequence 0195 and gender Male (the
\* digit at position 12 is 5).
C7_ExampleMale ==
  ExampleRun => (Returned /\ info.value = ExampleRecord("Male"))

C7_Witness == ExampleRun /\ Returned /\ stdout = 1 /\ exit_code = 0

\* the first 13 characters rebuilt from a record: century - 18, the last
\* two digits of the year, month and day of the date, the table code whose
\* name is the governorate, the sequence
Rebuild(r) ==
  LET d == r.date_of_birth
      y == SubSeq(d, 1, Len(d) - 6)
  IN  <<DigitChar[r.birth_century - 18 + 1]>>
        \o SubSeq(y, Len(y) - 1, Len(y))
        \o SubSeq(d, Len(d) - 4, Len(d) - 3)
        \o SubSeq(d, Len(d) - 1, Len(d))
        \o (CHOOSE c \in DOMAIN governorates : governorates[c] = r.birth_governorate)
        \o r.sequence_in_computer

\* C8: when a 14-digit argument is parsed, its first 13 digits are rebuilt
\* exactly from the record alone; the table maps distinct codes to distinct
\* names and the gender agrees with the last digit of the sequence.
C8_RoundTrip ==
  (Done /\ WellFormed /\ Returned) =>
    /\ Rebuild(info.value) = SubSeq(national_id, 1, 13)
    /\ \A a, b \in DOMAIN governorates : governorates[a] = governorates[b] => a = b
    /\ info.value.gender =
         (IF DigitVal(info.value.sequence_in_computer[4]) % 2 = 0
          THEN "Female" ELSE "Male")

C8_Witness ==
  /\ Done /\ WellFormed /\ Returned
  /\ info.value.birth_century = 21
  /\ info.value.date_of_birth = <<"2","0","0","4","-","0","2","-","2","9">>

\* the steps of the stated order whose constraint the argument violates
Violated ==
  IF ~WellFormed THEN {"structure"}
  ELSE (IF CenturyInRange THEN {} ELSE {"century"})
         \cup (IF RealDate /\ (CenturyInRange => DateInRange) THEN {} ELSE {"date"})
         \cup (IF ListedCode THEN {} ELSE {"governorate"})
         \cup (IF Digit(13) # 0 THEN {} ELSE {"gender"})

\* C9: validation is fail-fast in the order structure, century, date,
\* governorate, gender: an argument that violates several constraints is
\* reported with the error of the earliest violated step, and no record.
C9_EarliestErrorReported ==
  (Done /\ WellFormed /\ Cardinality(Violated) >= 2) =>
    /\ info.value = <<>>
    /\ IF "century" \in Violated THEN InvalidCentury
       ELSE IF "date" \in Violated THEN InvalidDate
       ELSE UnknownGovernorate

SameOutcome(a, b) ==
  /\ a.raised = b.raised /\ a.message = b.message /\ a.errors = b.errors
  /\ a.raised = "None" => a.value = b.value

\* C10: with the first 13 digits and now fixed, every value 1..9 of the
\* 14th digit gives the same record or the same error.
C10_CheckDigitIgnored ==
  (Done /\ WellFormed /\ national_id[14] # "0") =>
    \A z \in 1..9 :
      SameOutcome(from_str([national_id EXCEPT ![14] = DigitChar[z + 1]], now), info)

C10_Witness ==
  Done /\ WellFormed /\ Returned /\ national_id[14] = "9" /\ edits = 1

=============================================================================
